---- MODULE Spec2Model ----
(***************************************************************************)
(* Model of src/main.py: the FileProcessor worker pool (queue, worker      *)
(* threads, lock-guarded progress counters) and the backup/restore file    *)
(* operations of FileOperations.                                           *)
(*                                                                         *)
(* Threads: one caller thread ("main", the Tk main loop in the program)    *)
(* that issues the FileProcessor API calls one after the other, the worker *)
(* threads spawned by start_workers, and one poller thread that calls      *)
(* get_progress at arbitrary moments.                                      *)
(***************************************************************************)
EXTENDS Integers, Sequences, FiniteSets, TLC

\* ------------------------------------------------------------------ bounds
MaxTasks == 2      \* add_task calls in one behaviour
MaxSpawn == 2      \* worker threads spawned in one behaviour

\* --------------------------------------------------------------- constants
None == 0          \* the sentinel put on the queue by stop_workers
Outcomes == {"ok", "falsy", "raises"}   \* what calling a task's func does
Free == 0          \* self.lock is not held
MainThread == 0 - 1    \* lock holder: the caller thread
PollerThread == 0 - 2  \* lock holder: the poller thread

VARIABLES
    file_queue,    \* self.file_queue: FIFO of task numbers and None
    workers,       \* self.workers: list of tracked thread handles
    running,       \* self.running
    lock,          \* self.lock: Free or the thread holding it
    progress,      \* self.progress
    wpc,           \* position of each worker thread in _worker
    wtask,         \* the task a worker thread holds (None when it holds none)
    wret,          \* what the func call of the task a worker holds did
    spawned,       \* number of threads created so far
    nadded,        \* number of add_task calls so far; tasks are numbered by it
    mpc,           \* position of the caller thread
    mi,            \* caller's loop counter inside stop_workers
    ppc,           \* position of the poller thread
    snap,          \* the dict get_progress returned to the poller
    raised,        \* history: func calls that raised since the last reset
    epoch,         \* history: number of tasks added before the last reset
    script,        \* history: progress of reset; start(n>=1); add*; stop,
                   \* or of reset; add*; start(n>=1); add*
    left,          \* history: what the pool held at the last reset
    completed,     \* history: completed[i]: times task i was run and counted
    nputs,         \* history: sentinels put so far by the stop_workers call
    fs,            \* the filesystem: path -> content of the files that exist
    nops,          \* number of FileOperations calls so far
    prev,          \* history: the FileOperations call before the last one
    last           \* history: the last FileOperations call

threadvars == <<wpc, wtask, wret>>
callervars == <<mpc, mi>>
pollervars == <<ppc, snap>>
histvars == <<raised, epoch, script, left, completed, nputs>>
poolvars == <<file_queue, workers, running, lock, progress, wpc, wtask, wret,
              spawned, nadded, mpc, mi, ppc, snap, raised, epoch, script,
              left, completed, nputs>>
filevars == <<fs, nops, prev, last>>

vars == <<file_queue, workers, running, lock, progress, wpc, wtask, wret,
          spawned, nadded, mpc, mi, ppc, snap, raised, epoch, script, left,
          completed, nputs, fs, nops, prev, last>>

Threads == 1..MaxSpawn
Tasks == 1..MaxTasks
ZeroProgress == [total |-> 0, processed |-> 0, errors |-> 0]
NoSnap == [total |-> 0 - 1, processed |-> 0 - 1, errors |-> 0 - 1]

\* FileProcessor.__init__; a new pool has the counters of reset_progress
PoolInit ==
    /\ file_queue = <<>>
    /\ workers = <<>>
    /\ running = FALSE
    /\ lock = Free
    /\ progress = ZeroProgress
    /\ wpc = [w \in Threads |-> "unborn"]
    /\ wtask = [w \in Threads |-> None]
    /\ wret = [w \in Threads |-> "none"]
    /\ spawned = 0
    /\ nadded = 0
    /\ mpc = "idle"
    /\ mi = 0
    /\ ppc = "idle"
    /\ snap = NoSnap
    /\ raised = 0
    /\ epoch = 0
    /\ script = "reset"
    /\ left = "empty"
    /\ completed = [i \in Tasks |-> 0]
    /\ nputs = 0

NoCall == [op |-> "none", arg |-> <<>>, ret |-> "none", out |-> <<>>,
           content |-> <<>>]

\* the pool in a program that has not touched any file yet
Init ==
    /\ PoolInit
    /\ fs = <<>>
    /\ nops = 0
    /\ prev = NoCall
    /\ last = NoCall

\* what a queue holds: nothing, only sentinels, or some task
Leftover(q) ==
    IF q = <<>> THEN "empty"
    ELSE IF \A i \in 1..Len(q) : q[i] = None THEN "sentinels" ELSE "tasks"

\* ---------------------------------------------------------- caller thread

\* start_workers(n): running = True, then n threads are started and tracked.
\* The threads only read running and the queue, neither of which the rest of
\* the loop changes, so the loop is one step.
start_workers(n) ==
    /\ mpc = "idle"
    /\ spawned + n <= MaxSpawn
    /\ running' = TRUE
    /\ wpc' = [w \in Threads |->
                 IF w > spawned /\ w <= spawned + n THEN "while" ELSE wpc[w]]
    /\ workers' = workers \o [i \in 1..n |-> spawned + i]
    /\ spawned' = spawned + n
    /\ script' = IF script = "reset" /\ n >= 1 THEN "started"
                 ELSE IF script = "queued" /\ n >= 1 THEN "prestarted"
                 ELSE IF script = "prestarted" THEN "prestarted"
                 ELSE "off"
    /\ UNCHANGED <<file_queue, lock, progress, wtask, wret, nadded,
                   callervars, pollervars, raised, epoch, left, completed,
                   nputs, filevars>>

\* stop_workers putting one sentinel fewer than there are tracked workers
stop_workers_begin_short ==
    /\ mpc = "idle"
    /\ running' = FALSE
    /\ mi' = Len(workers) - 1
    /\ mpc' = "stop_put"
    /\ script' = IF script = "started" THEN "stopping" ELSE "off"
    /\ nputs' = 0
    /\ UNCHANGED <<file_queue, workers, lock, progress, threadvars, spawned,
                   nadded, pollervars, raised, epoch, left, completed,
                   filevars>>

\* stop_workers putting one sentinel more than there are tracked workers
stop_workers_begin_extra ==
    /\ mpc = "idle"
    /\ running' = FALSE
    /\ mi' = Len(workers) + 1
    /\ mpc' = "stop_put"
    /\ script' = IF script = "started" THEN "stopping" ELSE "off"
    /\ nputs' = 0
    /\ UNCHANGED <<file_queue, workers, lock, progress, threadvars, spawned,
                   nadded, pollervars, raised, epoch, left, completed,
                   filevars>>

\* stop_workers, line 56 and the evaluation of range(len(self.workers))
stop_workers_begin ==
    /\ mpc = "idle"
    /\ running' = FALSE
    /\ mi' = Len(workers)
    /\ mpc' = "stop_put"
    /\ script' = IF script = "started" THEN "stopping" ELSE "off"
    /\ nputs' = 0
    /\ UNCHANGED <<file_queue, workers, lock, progress, threadvars, spawned,
                   nadded, pollervars, raised, epoch, left, completed,
                   filevars>>

\* stop_workers putting a single sentinel however many workers are tracked
stop_workers_put_once ==
    /\ mpc = "stop_put"
    /\ IF mi > 0
       THEN /\ file_queue' = Append(file_queue, None)
            /\ nputs' = nputs + 1
            /\ mi' = 0
            /\ mpc' = mpc
       ELSE /\ mi' = 1
            /\ mpc' = "stop_join"
            /\ UNCHANGED <<file_queue, nputs>>
    /\ UNCHANGED <<workers, running, lock, progress, threadvars, spawned,
                   nadded, pollervars, raised, epoch, script, left,
                   completed, filevars>>

\* stop_workers, lines 57-58: one put(None) per iteration
stop_workers_put ==
    /\ mpc = "stop_put"
    /\ IF mi > 0
       THEN /\ file_queue' = Append(file_queue, None)
            /\ nputs' = nputs + 1
            /\ mi' = mi - 1
            /\ mpc' = mpc
       ELSE /\ mi' = 1
            /\ mpc' = "stop_join"
            /\ UNCHANGED <<file_queue, nputs>>
    /\ UNCHANGED <<workers, running, lock, progress, threadvars, spawned,
                   nadded, pollervars, raised, epoch, script, left,
                   completed, filevars>>

\* stop_workers going through the worker list without waiting for the threads
stop_workers_join_nowait ==
    /\ mpc = "stop_join"
    /\ mi <= Len(workers)
    /\ mi' = mi + 1
    /\ UNCHANGED <<file_queue, workers, running, lock, progress, threadvars,
                   spawned, nadded, mpc, pollervars, histvars, filevars>>

\* stop_workers, lines 59-60: join blocks until the thread has terminated
stop_workers_join ==
    /\ mpc = "stop_join"
    /\ mi <= Len(workers)
    /\ wpc[workers[mi]] = "dead"
    /\ mi' = mi + 1
    /\ UNCHANGED <<file_queue, workers, running, lock, progress, threadvars,
                   spawned, nadded, mpc, pollervars, histvars, filevars>>

\* stop_workers returning without clearing the worker list
stop_workers_end_keep ==
    /\ mpc = "stop_join"
    /\ mi > Len(workers)
    /\ workers' = workers
    /\ mpc' = "idle"
    /\ mi' = 0
    /\ script' = IF script = "stopping" THEN "stopped" ELSE "off"
    /\ nputs' = 0
    /\ UNCHANGED <<file_queue, running, lock, progress, threadvars, spawned,
                   nadded, pollervars, raised, epoch, left, completed,
                   filevars>>

\* stop_workers, line 61, and the return
stop_workers_end ==
    /\ mpc = "stop_join"
    /\ mi > Len(workers)
    /\ workers' = <<>>
    /\ mpc' = "idle"
    /\ mi' = 0
    /\ script' = IF script = "stopping" THEN "stopped" ELSE "off"
    /\ nputs' = 0
    /\ UNCHANGED <<file_queue, running, lock, progress, threadvars, spawned,
                   nadded, pollervars, raised, epoch, left, completed,
                   filevars>>

\* add_task dropping the task when the pool is not running
add_task_put_running ==
    /\ mpc = "idle"
    /\ nadded < MaxTasks
    /\ nadded' = nadded + 1
    /\ file_queue' = IF running THEN Append(file_queue, nadded + 1)
                                ELSE file_queue
    /\ mpc' = "add_lock"
    /\ script' = IF script \in {"started", "prestarted"} THEN script
                 ELSE IF script \in {"reset", "queued"} THEN "queued"
                 ELSE "off"
    /\ UNCHANGED <<workers, running, lock, progress, threadvars, spawned, mi,
                   pollervars, raised, epoch, left, completed, nputs,
                   filevars>>

\* add_task, line 84: the task goes on the queue first
add_task_put ==
    /\ mpc = "idle"
    /\ nadded < MaxTasks
    /\ nadded' = nadded + 1
    /\ file_queue' = Append(file_queue, nadded + 1)
    /\ mpc' = "add_lock"
    /\ script' = IF script \in {"started", "prestarted"} THEN script
                 ELSE IF script \in {"reset", "queued"} THEN "queued"
                 ELSE "off"
    /\ UNCHANGED <<workers, running, lock, progress, threadvars, spawned, mi,
                   pollervars, raised, epoch, left, completed, nputs,
                   filevars>>

\* add_task, line 85: with self.lock
add_task_lock ==
    /\ mpc = "add_lock"
    /\ lock = Free
    /\ lock' = MainThread
    /\ mpc' = "add_inc"
    /\ UNCHANGED <<file_queue, workers, running, progress, threadvars,
                   spawned, nadded, mi, pollervars, histvars, filevars>>

\* add_task assigning where it should add
add_task_inc_assign ==
    /\ mpc = "add_inc"
    /\ progress' = [progress EXCEPT !.total = 1]
    /\ lock' = Free
    /\ mpc' = "idle"
    /\ UNCHANGED <<file_queue, workers, running, threadvars, spawned, nadded,
                   mi, pollervars, histvars, filevars>>

\* add_task, line 86, and the release of the lock
add_task_inc ==
    /\ mpc = "add_inc"
    /\ progress' = [progress EXCEPT !.total = @ + 1]
    /\ lock' = Free
    /\ mpc' = "idle"
    /\ UNCHANGED <<file_queue, workers, running, threadvars, spawned, nadded,
                   mi, pollervars, histvars, filevars>>

\* reset_progress, line 95
reset_progress_lock ==
    /\ mpc = "idle"
    /\ lock = Free
    /\ lock' = MainThread
    /\ mpc' = "reset_set"
    /\ UNCHANGED <<file_queue, workers, running, progress, threadvars,
                   spawned, nadded, mi, pollervars, histvars, filevars>>

\* reset_progress zeroing total only
reset_progress_set_total ==
    /\ mpc = "reset_set"
    /\ progress' = [progress EXCEPT !.total = 0]
    /\ lock' = Free
    /\ mpc' = "idle"
    /\ epoch' = nadded
    /\ script' = IF ~running THEN "reset" ELSE "off"
    /\ left' = IF \E w \in Threads : wtask[w] # None THEN "tasks"
               ELSE Leftover(file_queue)
    /\ raised' = 0
    /\ UNCHANGED <<file_queue, workers, running, threadvars, spawned, nadded,
                   mi, pollervars, completed, nputs, filevars>>

\* reset_progress, line 96, and the release of the lock
reset_progress_set ==
    /\ mpc = "reset_set"
    /\ progress' = ZeroProgress
    /\ lock' = Free
    /\ mpc' = "idle"
    /\ epoch' = nadded
    /\ script' = IF ~running THEN "reset" ELSE "off"
    /\ left' = IF \E w \in Threads : wtask[w] # None THEN "tasks"
               ELSE Leftover(file_queue)
    /\ raised' = 0
    /\ UNCHANGED <<file_queue, workers, running, threadvars, spawned, nadded,
                   mi, pollervars, completed, nputs, filevars>>

\* ---------------------------------------------------------- worker thread

\* which counter the try/except of _worker increments for an outcome of
\* func(*args, **kwargs): only an exception reaches the except branch
TaskCounter(r) == IF r = "raises" THEN "errors" ELSE "processed"

\* _worker, line 65: while self.running
worker_while(w) ==
    /\ wpc[w] = "while"
    /\ wpc' = [wpc EXCEPT ![w] = IF running THEN "get" ELSE "dead"]
    /\ UNCHANGED <<file_queue, workers, running, lock, progress, wtask, wret,
                   spawned, nadded, callervars, pollervars, histvars,
                   filevars>>

\* a worker taking the counter lock at the get and keeping it over the call
worker_get_locked(w) ==
    /\ wpc[w] = "get"
    /\ file_queue # <<>>
    /\ lock = Free
    /\ file_queue' = Tail(file_queue)
    /\ IF Head(file_queue) = None
       THEN /\ wpc' = [wpc EXCEPT ![w] = "dead"]
            /\ UNCHANGED <<wtask, lock>>
       ELSE /\ wpc' = [wpc EXCEPT ![w] = "call"]
            /\ wtask' = [wtask EXCEPT ![w] = Head(file_queue)]
            /\ lock' = w
    /\ UNCHANGED <<workers, running, progress, wret, spawned, nadded,
                   callervars, pollervars, histvars, filevars>>

\* a worker passing over the head of the queue when a second item is there
worker_get_second(w) ==
    /\ wpc[w] = "get"
    /\ file_queue # <<>>
    /\ LET k == IF Len(file_queue) >= 2 THEN 2 ELSE 1
       IN  /\ file_queue' = SubSeq(file_queue, 1, k - 1)
                               \o SubSeq(file_queue, k + 1, Len(file_queue))
           /\ IF file_queue[k] = None
              THEN /\ wpc' = [wpc EXCEPT ![w] = "dead"]
                   /\ UNCHANGED wtask
              ELSE /\ wpc' = [wpc EXCEPT ![w] = "call"]
                   /\ wtask' = [wtask EXCEPT ![w] = file_queue[k]]
    /\ UNCHANGED <<workers, running, lock, progress, wret, spawned, nadded,
                   callervars, pollervars, histvars, filevars>>

\* a worker taking the newest item of the queue instead of the oldest
worker_get_lifo(w) ==
    /\ wpc[w] = "get"
    /\ file_queue # <<>>
    /\ file_queue' = SubSeq(file_queue, 1, Len(file_queue) - 1)
    /\ IF file_queue[Len(file_queue)] = None
       THEN /\ wpc' = [wpc EXCEPT ![w] = "dead"]
            /\ UNCHANGED wtask
       ELSE /\ wpc' = [wpc EXCEPT ![w] = "call"]
            /\ wtask' = [wtask EXCEPT ![w] = file_queue[Len(file_queue)]]
    /\ UNCHANGED <<workers, running, lock, progress, wret, spawned, nadded,
                   callervars, pollervars, histvars, filevars>>

\* a worker reading the head of the queue without removing it
worker_get_peek(w) ==
    /\ wpc[w] = "get"
    /\ file_queue # <<>>
    /\ file_queue' = IF Head(file_queue) = None THEN Tail(file_queue)
                                                ELSE file_queue
    /\ IF Head(file_queue) = None
       THEN /\ wpc' = [wpc EXCEPT ![w] = "dead"]
            /\ UNCHANGED wtask
       ELSE /\ wpc' = [wpc EXCEPT ![w] = "call"]
            /\ wtask' = [wtask EXCEPT ![w] = Head(file_queue)]
    /\ UNCHANGED <<workers, running, lock, progress, wret, spawned, nadded,
                   callervars, pollervars, histvars, filevars>>

\* _worker, lines 66-68: blocking get, break on None
worker_get(w) ==
    /\ wpc[w] = "get"
    /\ file_queue # <<>>
    /\ file_queue' = Tail(file_queue)
    /\ IF Head(file_queue) = None
       THEN /\ wpc' = [wpc EXCEPT ![w] = "dead"]
            /\ UNCHANGED wtask
       ELSE /\ wpc' = [wpc EXCEPT ![w] = "call"]
            /\ wtask' = [wtask EXCEPT ![w] = Head(file_queue)]
    /\ UNCHANGED <<workers, running, lock, progress, wret, spawned, nadded,
                   callervars, pollervars, histvars, filevars>>

\* _worker without the except clause: an exception ends the thread
worker_call_uncaught(w, r) ==
    /\ wpc[w] = "call"
    /\ wret' = [wret EXCEPT ![w] = r]
    /\ raised' = IF r = "raises" THEN raised + 1 ELSE raised
    /\ wpc' = [wpc EXCEPT ![w] = IF TaskCounter(r) = "errors"
                                 THEN "dead" ELSE "proc_lock"]
    /\ UNCHANGED <<file_queue, workers, running, lock, progress, wtask,
                   spawned, nadded, callervars, pollervars, epoch, script,
                   left, completed, nputs, filevars>>

\* _worker, lines 71-72 and 75-76: the call of the task's func, which
\* returns a truthy value, returns False/None, or raises
worker_call(w, r) ==
    /\ wpc[w] = "call"
    /\ wret' = [wret EXCEPT ![w] = r]
    /\ raised' = IF r = "raises" THEN raised + 1 ELSE raised
    /\ wpc' = [wpc EXCEPT ![w] = IF TaskCounter(r) = "errors"
                                 THEN "err_lock" ELSE "proc_lock"]
    /\ UNCHANGED <<file_queue, workers, running, lock, progress, wtask,
                   spawned, nadded, callervars, pollervars, epoch, script,
                   left, completed, nputs, filevars>>

\* _worker, lines 73 and 77: with self.lock
worker_lock(w) ==
    /\ wpc[w] \in {"proc_lock", "err_lock"}
    /\ lock = Free
    /\ lock' = w
    /\ wpc' = [wpc EXCEPT ![w] = IF wpc[w] = "proc_lock" THEN "proc_inc"
                                                        ELSE "err_inc"]
    /\ UNCHANGED <<file_queue, workers, running, progress, wtask, wret,
                   spawned, nadded, callervars, pollervars, histvars,
                   filevars>>

\* a worker whose except branch increments processed as well as errors
worker_inc_both(w) ==
    /\ wpc[w] \in {"proc_inc", "err_inc"}
    /\ progress' = IF wpc[w] = "proc_inc"
                   THEN [progress EXCEPT !.processed = @ + 1]
                   ELSE [progress EXCEPT !.errors = @ + 1,
                                         !.processed = @ + 1]
    /\ lock' = Free
    /\ wtask' = [wtask EXCEPT ![w] = None]
    /\ wret' = [wret EXCEPT ![w] = "none"]
    /\ wpc' = [wpc EXCEPT ![w] = "while"]
    /\ completed' = [completed EXCEPT ![wtask[w]] = @ + 1]
    /\ UNCHANGED <<file_queue, workers, running, spawned, nadded, callervars,
                   pollervars, raised, epoch, script, left, nputs, filevars>>

\* _worker, lines 74 and 78, the release of the lock, and task_done (line 80,
\* which only touches the queue's unfinished-task count that nothing reads)
worker_inc(w) ==
    /\ wpc[w] \in {"proc_inc", "err_inc"}
    /\ progress' = IF wpc[w] = "proc_inc"
                   THEN [progress EXCEPT !.processed = @ + 1]
                   ELSE [progress EXCEPT !.errors = @ + 1]
    /\ lock' = Free
    /\ wtask' = [wtask EXCEPT ![w] = None]
    /\ wret' = [wret EXCEPT ![w] = "none"]
    /\ wpc' = [wpc EXCEPT ![w] = "while"]
    /\ completed' = [completed EXCEPT ![wtask[w]] = @ + 1]
    /\ UNCHANGED <<file_queue, workers, running, spawned, nadded, callervars,
                   pollervars, raised, epoch, script, left, nputs, filevars>>

\* ---------------------------------------------------------- poller thread

\* get_progress, line 90
get_progress_lock ==
    /\ ppc = "idle"
    /\ lock = Free
    /\ lock' = PollerThread
    /\ ppc' = "copy"
    /\ UNCHANGED <<file_queue, workers, running, progress, threadvars,
                   spawned, nadded, callervars, snap, histvars, filevars>>

\* snap has this value when what get_progress returned is not a copy but the
\* dict object self.progress itself
SharedDict == [total |-> 0 - 2, processed |-> 0 - 2, errors |-> 0 - 2]

\* the value a holder of the returned dict stores into it
Scribble == 0 - 3

\* what the holder of the dict returned by get_progress reads from it
Held == IF snap = SharedDict THEN progress ELSE snap

\* get_progress returning self.progress without copying it
get_progress_alias ==
    /\ ppc = "copy"
    /\ snap' = SharedDict
    /\ lock' = Free
    /\ ppc' = "idle"
    /\ UNCHANGED <<file_queue, workers, running, progress, threadvars,
                   spawned, nadded, callervars, histvars, filevars>>

\* get_progress, line 91, and the release of the lock
get_progress_copy ==
    /\ ppc = "copy"
    /\ snap' = progress
    /\ lock' = Free
    /\ ppc' = "idle"
    /\ UNCHANGED <<file_queue, workers, running, progress, threadvars,
                   spawned, nadded, callervars, histvars, filevars>>

\* the holder of the dict returned by get_progress assigns to its "total"
\* key: the assignment lands in the object the holder has, which is
\* self.progress only if get_progress handed that object out
holder_write ==
    /\ ppc = "idle"
    /\ snap # NoSnap
    /\ Held.total # Scribble
    /\ IF snap = SharedDict
       THEN /\ progress' = [progress EXCEPT !.total = Scribble]
            /\ UNCHANGED snap
       ELSE /\ snap' = [snap EXCEPT !.total = Scribble]
            /\ UNCHANGED progress
    /\ UNCHANGED <<file_queue, workers, running, lock, threadvars, spawned,
                   nadded, callervars, ppc, histvars, filevars>>

\* ------------------------------------------------------- FileOperations
\* Paths and file contents are strings, modelled as sequences of characters.

BACKUP_EXTENSION == <<".", "b", "a", "k", ".", "c", "u">>

DigitChars == <<"0", "1", "2", "3", "4", "5", "6", "7", "8", "9">>

\* n as w decimal digits, zero padded (%Y, %m, %d, %H, %M, %S)
RECURSIVE Pad(_, _)
Pad(n, w) ==
    IF w = 0 THEN <<>>
    ELSE Pad(n \div 10, w - 1) \o <<DigitChars[(n % 10) + 1]>>

\* datetime.strftime("%Y%m%d_%H%M%S")
Strftime(t) ==
    Pad(t.year, 4) \o Pad(t.month, 2) \o Pad(t.day, 2) \o <<"_">> \o
    Pad(t.hour, 2) \o Pad(t.minute, 2) \o Pad(t.second, 2)

\* str.endswith
EndsWith(str, suffix) ==
    /\ Len(str) >= Len(suffix)
    /\ SubSeq(str, Len(str) - Len(suffix) + 1, Len(str)) = suffix

\* str[:-n] for n > 0
DropLast(str, n) == SubSeq(str, 1, Len(str) - n)

\* str.splitlines() on strings whose only line break is "\n"
RECURSIVE SplitLF(_)
SplitLF(str) ==
    IF \A i \in 1..Len(str) : str[i] # "\n" THEN <<str>>
    ELSE LET i == CHOOSE j \in 1..Len(str) :
                      str[j] = "\n" /\ \A k \in 1..(j - 1) : str[k] # "\n"
         IN <<SubSeq(str, 1, i - 1)>> \o SplitLF(SubSeq(str, i + 1, Len(str)))

Splitlines(str) ==
    LET parts == SplitLF(str)
    IN IF parts[Len(parts)] = <<>> THEN SubSeq(parts, 1, Len(parts) - 1)
       ELSE parts

\* "\n".join(lines)
RECURSIVE JoinLF(_)
JoinLF(lines) ==
    IF lines = <<>> THEN <<>>
    ELSE IF Len(lines) = 1 THEN lines[1]
    ELSE lines[1] \o <<"\n">> \o JoinLF(Tail(lines))

\* list.insert(pos, x) for 0 <= pos <= len
InsertAt(lines, pos, x) ==
    SubSeq(lines, 1, pos) \o <<x>> \o SubSeq(lines, pos + 1, Len(lines))

\* the filesystem after a file is written
WriteFile(f, path, content) ==
    [q \in (DOMAIN f) \cup {path} |-> IF q = path THEN content ELSE f[q]]

\* shutil.copy2(src, dst) succeeds: src exists, dst is a name, not src itself
CanCopy(f, src, dst) == src \in DOMAIN f /\ dst # <<>> /\ src # dst

\* create_backup, lines 132-140: the filesystem it leaves and what it returns
create_backup_result(f, file_path, now) ==
    LET timestamp == Strftime(now)
        backup_path == file_path \o <<"_">> \o timestamp \o BACKUP_EXTENSION
    IN IF CanCopy(f, file_path, backup_path)
       THEN [fs |-> WriteFile(f, backup_path, f[file_path]),
             ret |-> "path", out |-> backup_path]
       ELSE [fs |-> f, ret |-> "None", out |-> <<>>]

\* restore_backup, lines 145-156
restore_backup_result(f, backup_path) ==
    IF ~EndsWith(backup_path, BACKUP_EXTENSION)
    THEN [fs |-> f, ret |-> "False", out |-> <<>>]
    ELSE LET original_path == DropLast(backup_path, Len(BACKUP_EXTENSION))
         IN IF CanCopy(f, backup_path, original_path)
            THEN [fs |-> WriteFile(f, original_path, f[backup_path]),
                  ret |-> "True", out |-> original_path]
            ELSE [fs |-> f, ret |-> "False", out |-> <<>>]

\* add_text_to_file, lines 112-121: what is written for a position; k is the
\* value of random.randint(0, len(lines)); any other position writes nothing
\* to the file opened for writing
NewContent(content, text, position, k) ==
    IF position = "start" THEN text \o <<"\n">> \o content
    ELSE IF position = "end" THEN content \o <<"\n">> \o text
    ELSE IF position = "random"
         THEN JoinLF(InsertAt(Splitlines(content), k, text))
    ELSE <<>>

\* add_text_to_file, lines 105-127
add_text_to_file_result(f, file_path, text, position, backup, now, k) ==
    LET f1 == IF backup THEN create_backup_result(f, file_path, now).fs
              ELSE f
    IN IF file_path \in DOMAIN f1 /\ file_path # <<>>
       THEN [fs |-> WriteFile(f1, file_path,
                              NewContent(f1[file_path], text, position, k)),
             ret |-> "True", out |-> file_path]
       ELSE [fs |-> f1, ret |-> "False", out |-> <<>>]

\* ------------------------------------------------- inputs of FileOperations
MaxFileOps == 2    \* FileOperations calls in one behaviour

InputPaths ==
    { <<"a">>,
      <<"a">> \o BACKUP_EXTENSION,
      BACKUP_EXTENSION }

InitContents == { <<"x">>, <<"x", "\n", "y", "\n">> }

Texts == { <<"t">> }

Positions == {"start", "end", "random", "middle"}

\* values of datetime.now()
Times ==
    { [year |-> 2024, month |-> 1, day |-> 2, hour |-> 3, minute |-> 4,
       second |-> 5],
      [year |-> 2024, month |-> 12, day |-> 31, hour |-> 23, minute |-> 59,
       second |-> 59] }

\* a directory holding any of the input files, with any of the contents
FilesInit ==
    /\ \E D \in SUBSET InputPaths : fs \in [D -> InitContents]
    /\ nops = 0
    /\ prev = NoCall
    /\ last = NoCall

ContentAt(f, path) == IF path \in DOMAIN f THEN f[path] ELSE <<>>

\* a call of FileOperations.create_backup(file_path) at time now
create_backup(file_path, now) ==
    /\ nops < MaxFileOps
    /\ LET r == create_backup_result(fs, file_path, now)
       IN /\ fs' = r.fs
          /\ last' = [op |-> "create_backup", arg |-> file_path,
                      ret |-> r.ret, out |-> r.out,
                      content |-> ContentAt(fs, file_path)]
    /\ prev' = last
    /\ nops' = nops + 1
    /\ UNCHANGED poolvars

\* a call of FileOperations.restore_backup(backup_path)
restore_backup(backup_path) ==
    /\ nops < MaxFileOps
    /\ LET r == restore_backup_result(fs, backup_path)
       IN /\ fs' = r.fs
          /\ last' = [op |-> "restore_backup", arg |-> backup_path,
                      ret |-> r.ret, out |-> r.out,
                      content |-> ContentAt(fs, backup_path)]
    /\ prev' = last
    /\ nops' = nops + 1
    /\ UNCHANGED poolvars

\* a call of FileOperations.add_text_to_file(file_path, text, position,
\* create_backup) at time now
add_text_to_file(file_path, text, position, backup, now) ==
    /\ nops < MaxFileOps
    /\ \E k \in 0..Len(Splitlines(ContentAt(fs, file_path))) :
         LET r == add_text_to_file_result(fs, file_path, text, position,
                                          backup, now, k)
         IN /\ fs' = r.fs
            /\ last' = [op |-> "add_text_to_file", arg |-> file_path,
                        ret |-> r.ret, out |-> r.out,
                        content |-> ContentAt(fs, file_path)]
    /\ prev' = last
    /\ nops' = nops + 1
    /\ UNCHANGED poolvars

\* paths a caller can pass: the inputs and every file that exists
KnownPaths == InputPaths \cup DOMAIN fs

FilesNext ==
    \/ \E p \in KnownPaths, t \in Times : create_backup(p, t)
    \/ \E p \in KnownPaths : restore_backup(p)
    \/ \E p \in KnownPaths, x \in Texts, pos \in Positions, b \in BOOLEAN,
          t \in Times : add_text_to_file(p, x, pos, b, t)

\* the file operations called one after the other on a small directory
BackupInit == PoolInit /\ FilesInit

BackupSpec == BackupInit /\ [][FilesNext]_vars

\* ------------------------------------------- tasks that restore backups
\* The pool when every task is add_task(FileOperations.restore_backup, path),
\* as restore_backups queues them (lines 589-592).

\* the path argument of the tasks, by task number: one without the backup
\* suffix, one with it, and the bare suffix
RestoreArgs == << <<"a">>, <<"a">> \o BACKUP_EXTENSION, BACKUP_EXTENSION >>

TaskArg(t) == RestoreArgs[((t - 1) % Len(RestoreArgs)) + 1]

\* what _worker sees of a call of restore_backup: it returns True or False
\* and never raises (lines 154-156 catch every Exception)
RestoreOutcome(ret) == IF ret = "True" THEN "ok" ELSE "falsy"

\* _worker, lines 71-72, when func is FileOperations.restore_backup
worker_call_restore(w) ==
    /\ wpc[w] = "call"
    /\ LET r == restore_backup_result(fs, TaskArg(wtask[w]))
       IN /\ fs' = r.fs
          /\ last' = [op |-> "restore_backup", arg |-> TaskArg(wtask[w]),
                      ret |-> r.ret, out |-> r.out,
                      content |-> ContentAt(fs, TaskArg(wtask[w]))]
          /\ wret' = [wret EXCEPT ![w] = RestoreOutcome(r.ret)]
          /\ wpc' = [wpc EXCEPT ![w] =
                       IF TaskCounter(RestoreOutcome(r.ret)) = "errors"
                       THEN "err_lock" ELSE "proc_lock"]
    /\ prev' = last
    /\ nops' = nops + 1
    /\ UNCHANGED <<file_queue, workers, running, lock, progress, wtask,
                   spawned, nadded, callervars, pollervars, histvars>>

\* ------------------------------------------------------------ ModernUI
\* The handlers of the window run on the Tk main thread, one at a time, and
\* are the only callers of the pool in the program. mpc is that thread's
\* position: "idle" in the main loop, "bulk_*" inside process_files,
\* restore_backups or create_dummy_files (the three have the same shape),
\* "stop_*" inside on_close, "closed" after destroy().

\* process_files line 553, restore_backups line 581, create_dummy_files line
\* 608: self.processor.start_workers(), which starts MAX_THREADS more
\* threads; here any positive number n that the thread bound allows
bulk_start_workers(n) ==
    /\ mpc = "idle"
    /\ spawned + n <= MaxSpawn
    /\ running' = TRUE
    /\ wpc' = [w \in Threads |->
                 IF w > spawned /\ w <= spawned + n THEN "while" ELSE wpc[w]]
    /\ workers' = workers \o [i \in 1..n |-> spawned + i]
    /\ spawned' = spawned + n
    /\ mpc' = "bulk_reset"
    /\ script' = "off"
    /\ UNCHANGED <<file_queue, lock, progress, wtask, wret, nadded, mi,
                   pollervars, raised, epoch, left, completed, nputs,
                   filevars>>

\* lines 554, 582, 609: self.processor.reset_progress(), taking the lock
bulk_reset_progress_lock ==
    /\ mpc = "bulk_reset"
    /\ lock = Free
    /\ lock' = MainThread
    /\ mpc' = "bulk_reset_set"
    /\ UNCHANGED <<file_queue, workers, running, progress, threadvars,
                   spawned, nadded, mi, pollervars, histvars, filevars>>

\* lines 554, 582, 609: reset_progress line 96 and the release of the lock
bulk_reset_progress_set ==
    /\ mpc = "bulk_reset_set"
    /\ progress' = ZeroProgress
    /\ lock' = Free
    /\ mpc' = "bulk_walk"
    /\ epoch' = nadded
    /\ left' = IF \E w \in Threads : wtask[w] # None THEN "tasks"
               ELSE Leftover(file_queue)
    /\ raised' = 0
    /\ UNCHANGED <<file_queue, workers, running, threadvars, spawned, nadded,
                   mi, pollervars, script, completed, nputs, filevars>>

\* lines 563, 589, 613: self.processor.add_task(...) for one more file of the
\* walk, the put of add_task line 84
bulk_add_task_put ==
    /\ mpc = "bulk_walk"
    /\ nadded < MaxTasks
    /\ nadded' = nadded + 1
    /\ file_queue' = Append(file_queue, nadded + 1)
    /\ mpc' = "bulk_add_lock"
    /\ UNCHANGED <<workers, running, lock, progress, threadvars, spawned, mi,
                   pollervars, histvars, filevars>>

\* add_task line 85 inside the walk
bulk_add_task_lock ==
    /\ mpc = "bulk_add_lock"
    /\ lock = Free
    /\ lock' = MainThread
    /\ mpc' = "bulk_add_inc"
    /\ UNCHANGED <<file_queue, workers, running, progress, threadvars,
                   spawned, nadded, mi, pollervars, histvars, filevars>>

\* add_task line 86 inside the walk, and the release of the lock
bulk_add_task_inc ==
    /\ mpc = "bulk_add_inc"
    /\ progress' = [progress EXCEPT !.total = @ + 1]
    /\ lock' = Free
    /\ mpc' = "bulk_walk"
    /\ UNCHANGED <<file_queue, workers, running, threadvars, spawned, nadded,
                   mi, pollervars, histvars, filevars>>

\* lines 571, 594, 618: the walk is over, the message box is shown and the
\* handler returns to the main loop; the workers are left running. The text
\* of the box is built from self.processor.progress['total'] (lines 571 and
\* 594), read here with no with self.lock around it
bulk_return ==
    /\ mpc = "bulk_walk"
    /\ mpc' = "idle"
    /\ UNCHANGED <<file_queue, workers, running, lock, progress, threadvars,
                   spawned, nadded, mi, pollervars, histvars, filevars>>

\* on_close, lines 294-295 after stop_workers has joined the threads:
\* stop_workers line 61, save_config and destroy()
on_close_destroy ==
    /\ mpc = "stop_join"
    /\ mi > Len(workers)
    /\ workers' = <<>>
    /\ mpc' = "closed"
    /\ mi' = 0
    /\ nputs' = 0
    /\ UNCHANGED <<file_queue, running, lock, progress, threadvars, spawned,
                   nadded, pollervars, raised, epoch, script, left, completed,
                   filevars>>

\* ------------------------------------------------------- specifications

PoolNext ==
    \/ \E n \in 0..MaxSpawn : start_workers(n)
    \/ stop_workers_begin
    \/ stop_workers_put
    \/ stop_workers_join
    \/ stop_workers_end
    \/ add_task_put
    \/ add_task_lock
    \/ add_task_inc
    \/ reset_progress_lock
    \/ reset_progress_set
    \/ \E w \in Threads : worker_while(w)
    \/ \E w \in Threads : worker_get(w)
    \/ \E w \in Threads, r \in Outcomes : worker_call(w, r)
    \/ \E w \in Threads : worker_lock(w)
    \/ \E w \in Threads : worker_inc(w)

\* the pool with its caller and its workers
Spec == Init /\ [][PoolNext]_vars

PollNext ==
    \/ PoolNext
    \/ get_progress_lock
    \/ get_progress_copy

\* the pool, its caller, its workers and a concurrent progress poller
PollSpec == Init /\ [][PollNext]_vars

AppNext ==
    \/ \E n \in 1..MaxSpawn : bulk_start_workers(n)
    \/ bulk_reset_progress_lock
    \/ bulk_reset_progress_set
    \/ bulk_add_task_put
    \/ bulk_add_task_lock
    \/ bulk_add_task_inc
    \/ bulk_return
    \/ stop_workers_begin
    \/ stop_workers_put
    \/ stop_workers_join
    \/ on_close_destroy
    \/ \E w \in Threads : worker_while(w)
    \/ \E w \in Threads : worker_get(w)
    \/ \E w \in Threads, r \in Outcomes : worker_call(w, r)
    \/ \E w \in Threads : worker_lock(w)
    \/ \E w \in Threads : worker_inc(w)

\* the program: the window's handlers driving the pool, and the workers
AppSpec == Init /\ [][AppNext]_vars

CopyNext ==
    \/ PollNext
    \/ holder_write

\* the pool, its caller, its workers, and a poller that writes into the
\* dicts it gets
CopySpec == Init /\ [][CopyNext]_vars

\* scheduling when the tasks are arbitrarily slow: nothing is assumed about
\* the workers' loop tests, gets and func calls; a thread that holds the lock
\* executes its one statement under it and a thread waiting in add_task for
\* the lock gets it if it is free again and again (get_progress is called
\* from a 500 ms timer, line 799, not in a tight loop)
HolderFairness ==
    /\ \A w \in Threads : WF_vars(worker_inc(w))
    /\ WF_vars(add_task_inc)
    /\ WF_vars(reset_progress_set)
    /\ WF_vars(get_progress_copy)
    /\ SF_vars(add_task_lock)

\* the pool with its poller when the tasks may never return
SlowSpec == PollSpec /\ HolderFairness

RestoreNext ==
    \/ \E n \in 0..MaxSpawn : start_workers(n)
    \/ stop_workers_begin
    \/ stop_workers_put
    \/ stop_workers_join
    \/ stop_workers_end
    \/ add_task_put
    \/ add_task_lock
    \/ add_task_inc
    \/ reset_progress_lock
    \/ reset_progress_set
    \/ \E w \in Threads : worker_while(w)
    \/ \E w \in Threads : worker_get(w)
    \/ \E w \in Threads : worker_call_restore(w)
    \/ \E w \in Threads : worker_lock(w)
    \/ \E w \in Threads : worker_inc(w)

\* the pool running restore_backup tasks on a small directory
RestoreSpec == BackupInit /\ [][RestoreNext]_vars

\* a step of the caller inside a call it has begun, other than taking the lock
caller_step ==
    \/ stop_workers_put
    \/ stop_workers_join
    \/ stop_workers_end
    \/ add_task_inc
    \/ reset_progress_set

\* a step of worker thread w
worker_step(w) ==
    \/ worker_while(w)
    \/ worker_get(w)
    \/ \E r \in Outcomes : worker_call(w, r)
    \/ worker_lock(w)
    \/ worker_inc(w)

\* scheduling: threads are preemptive and every func call returns, so a
\* thread that stays able to take its next step eventually takes it. The
\* caller is only obliged to finish the call it is in.
Fairness ==
    /\ WF_vars(caller_step)
    /\ WF_vars(add_task_lock)
    /\ \A w \in Threads : WF_vars(worker_step(w))

\* the pool under fair scheduling; the caller is free to make no further call
FairSpec == Spec /\ Fairness

\* ------------------------------------------------------------ vocabulary

\* tasks added since the last reset_progress
Added == nadded - epoch

\* a worker holds a task whose counter increment is not yet recorded
InFlight(w) == wpc[w] \in {"call", "proc_lock", "err_lock", "proc_inc", "err_inc"}

\* queue empty, no task in flight, every call of the caller returned
Idle ==
    /\ file_queue = <<>>
    /\ \A w \in Threads : ~InFlight(w)
    /\ mpc = "idle"

Alive(w) == wpc[w] \notin {"unborn", "dead"}

TypeOK ==
    /\ running \in BOOLEAN
    /\ spawned \in 0..MaxSpawn
    /\ nadded \in 0..MaxTasks
    /\ lock \in {Free, MainThread, PollerThread} \cup Threads
    /\ \A w \in Threads : wtask[w] \in 0..MaxTasks
    /\ (mpc = "idle" /\ ~running) => \A w \in Threads : ~Alive(w)

\* ------------------------------------------------------------------ C1
\* C1: with no reset_progress after the first add_task, every snapshot
\* returned by get_progress has processed + errors <= total.
C1_SnapshotWithinTotal ==
    (snap # NoSnap /\ epoch = 0) =>
        snap.processed + snap.errors <= snap.total

\* ------------------------------------------------------------------ C2
\* C2: after reset_progress on an empty stopped pool, start_workers(n >= 1),
\* N add_task calls and stop_workers, when stop_workers has returned the
\* counters are exactly total N, errors K (the calls that raised) and
\* processed N - K.
C2_StopCountsEveryTask ==
    (script = "stopped" /\ left = "empty") =>
        progress = [total |-> Added, processed |-> Added - raised,
                    errors |-> raised]

\* ------------------------------------------------------------------ C3
\* C3: after reset_progress on a stopped pool whose queue holds no task,
\* start_workers(n >= 1) and N add_task calls, with no stop and no reset,
\* whenever the pool is idle total = N and processed + errors = N.
C3_IdleCountsAdded ==
    (script = "started" /\ left # "tasks" /\ Idle) =>
        /\ progress.total = Added
        /\ progress.processed + progress.errors = Added

C3_Witness ==
    /\ script = "started" /\ left # "tasks" /\ Idle
    /\ Added >= 2
    /\ progress.processed = 1 /\ progress.errors = 1

\* ------------------------------------------------------------------ C4
\* C4: under fair scheduling every call of stop_workers returns.
C4_StopReturns == (mpc \in {"stop_put", "stop_join"}) ~> (mpc = "idle")

\* stop_workers has returned on a pool with every thread of the model spawned
\* while a task was still waiting in the queue
C4_Witness ==
    /\ mpc = "idle" /\ ~running
    /\ spawned = MaxSpawn
    /\ Leftover(file_queue) = "tasks"

\* ------------------------------------------------------------------ C5
\* C5: a task whose func returns a falsy value is counted like one that
\* raises: errors + 1, processed unchanged.
C5_FalsyCountsAsError ==
    [][\A w \in Threads :
         (wret[w] = "falsy" /\ wret'[w] = "none") =>
             /\ progress'.errors = progress.errors + 1
             /\ progress'.processed = progress.processed]_vars

\* ------------------------------------------------------------------ C6
\* C6: a task whose func raises adds exactly one to errors and nothing to
\* processed, and its worker does not terminate: it returns to the loop
\* head and, the pool still running, goes on to the next queue.get.
C6_RaiseContained ==
    [][\A w \in Threads :
         /\ (wpc[w] = "call" /\ wret'[w] = "raises") =>
                (wpc'[w] = "err_lock" /\ progress' = progress)
         /\ (wret[w] = "raises" /\ wpc'[w] # wpc[w] /\ wret'[w] = "raises") =>
                (wpc'[w] = "err_inc" /\ progress' = progress)
         /\ (wret[w] = "raises" /\ wret'[w] = "none") =>
                /\ progress'.errors = progress.errors + 1
                /\ progress'.processed = progress.processed
                /\ progress'.total = progress.total
                /\ wpc'[w] = "while"
         /\ (wpc[w] = "while" /\ running /\ wpc'[w] # wpc[w]) =>
                wpc'[w] = "get"]_vars

\* the only worker ever spawned calls a second task after one that raised
C6_Witness ==
    /\ spawned = 1 /\ epoch = 0
    /\ progress.errors = 1
    /\ wpc[1] = "call"

\* ------------------------------------------------------------------ C7
\* C7: after reset_progress on a stopped pool whose queue holds no task (a
\* new pool, or one that went through start/stop cycles), start_workers
\* (n >= 1) and N add_task calls, fair scheduling leads to
\* processed + errors = total = N unless the caller makes another call.
C7_PoolReusable ==
    (script = "started" /\ left # "tasks") ~>
        \/ script # "started"
        \/ /\ progress.total = Added
           /\ progress.processed + progress.errors = Added
           /\ mpc = "idle"

\* ------------------------------------------------------------------ C8
\* C8: when stop_workers has returned, the queue holds no sentinel.
C8_NoSentinelLeft ==
    (mpc = "idle" /\ ~running) =>
        \A i \in 1..Len(file_queue) : file_queue[i] # None

\* ------------------------------------------------------------------ C9
\* C9: start_workers on a pool that is already running adds no worker.
C9_StartGuarded == [][running => spawned' = spawned]_vars

\* ----------------------------------------------------------------- C10
\* C10: create_backup(P) returning B followed by restore_backup(B) succeeds
\* and writes the content P had to the path P.
C10_BackupRoundTrip ==
    (/\ prev.op = "create_backup" /\ prev.ret = "path"
     /\ last.op = "restore_backup" /\ last.arg = prev.out) =>
        /\ last.ret = "True"
        /\ last.out = prev.arg
        /\ prev.arg \in DOMAIN fs
        /\ fs[prev.arg] = prev.content

\* ----------------------------------------------------------------- C11
\* the only live worker thread of the pool is w
OnlyWorker(w) == \A v \in Threads : Alive(v) => v = w

\* C11: in a pool of exactly one worker, when the worker starts the operation
\* of a task B, the operation of every task A added before B has completed
\* (add_task is called from the one caller thread, so A was added before B
\* exactly when A's number is smaller).
C11_SingleWorkerFifo ==
    \A w \in Threads : \A b \in Tasks :
        (OnlyWorker(w) /\ InFlight(w) /\ wtask[w] = b) =>
            \A a \in Tasks : a < b => completed[a] >= 1

C11_Witness ==
    \E w \in Threads :
        /\ OnlyWorker(w)
        /\ wpc[w] = "call"
        /\ wtask[w] = 2
        /\ completed[1] = 1
        /\ spawned = 1

\* ----------------------------------------------------------------- C12
\* the caller is inside a stop_workers call
InStop == mpc \in {"stop_put", "stop_join"}

\* C12: every step of a stop_workers call on a pool whose worker list is
\* empty (never started, or stopped since) leaves the queue and the counters
\* as they are, and the call goes through each of its two loops in one step:
\* no sentinel is put and there is no thread to wait for.
C12_StopWithoutWorkers ==
    [][(workers = <<>> /\ (InStop \/ InStop')) =>
          /\ file_queue' = file_queue
          /\ progress' = progress
          /\ nputs' = 0
          /\ mpc = "stop_put" => mpc' = "stop_join"
          /\ mpc = "stop_join" => mpc' = "idle"]_vars

C12_Witness ==
    /\ mpc = "stop_join"
    /\ spawned = 0
    /\ workers = <<>>
    /\ file_queue = <<1>>
    /\ progress.total = 1

\* ----------------------------------------------------------------- C13
\* C13: a get_progress whose copy is taken when the last reset_progress found
\* no task queued or in flight and no add_task has been called since returns
\* {total: 0, processed: 0, errors: 0}.
C13_ResetThenGetIsZero ==
    [][(ppc = "copy" /\ ppc' = "idle" /\ epoch = nadded /\ left # "tasks") =>
          snap' = ZeroProgress]_vars

\* the copy about to be taken after a reset that followed a counted task
C13_Witness ==
    /\ ppc = "copy"
    /\ mpc = "idle"
    /\ epoch = nadded
    /\ left # "tasks"
    /\ completed[1] = 1
    /\ progress = ZeroProgress

\* ----------------------------------------------------------------- C14
\* no stop_workers and no reset_progress after an add_task since __init__
FreshPool == epoch = 0 /\ Len(workers) = spawned

\* C14: add_task calls on a new pool with no worker leave the tasks in the
\* queue, in order and not run, and counted in total; once start_workers
\* (n >= 1) has followed, fair scheduling leads to every task added so far
\* having been run and counted, unless the caller stops or resets the pool.
C14_QueuedBeforeStart ==
    /\ []((script = "queued" /\ FreshPool /\ spawned = 0 /\ mpc = "idle") =>
            /\ progress = [total |-> nadded, processed |-> 0, errors |-> 0]
            /\ file_queue = [i \in 1..nadded |-> i]
            /\ \A t \in Tasks : completed[t] = 0)
    /\ ((script = "prestarted" /\ FreshPool) ~>
            \/ script # "prestarted"
            \/ /\ \A t \in 1..nadded : completed[t] = 1
               /\ progress.total = nadded
               /\ mpc = "idle")

C14_Witness ==
    /\ script = "prestarted"
    /\ FreshPool
    /\ nadded = 2
    /\ \A t \in 1..nadded : completed[t] = 1
    /\ progress.total = nadded
    /\ mpc = "idle"

\* ----------------------------------------------------------------- C15
\* number of places that hold task t: queue slots and workers running it
InQueue(t) == Cardinality({i \in DOMAIN file_queue : file_queue[i] = t})

OnWorkers(t) == Cardinality({w \in Threads : InFlight(w) /\ wtask[w] = t})

\* C15: every task passed to add_task is in exactly one place, the queue, one
\* worker, or completed (once); a task not yet added is nowhere.
C15_TaskConservation ==
    \A t \in Tasks :
        InQueue(t) + OnWorkers(t) + completed[t] = IF t <= nadded THEN 1 ELSE 0

C15_Witness ==
    /\ spawned = 2
    /\ InQueue(2) = 0
    /\ OnWorkers(2) = 1
    /\ completed[1] = 1
    /\ ~running

\* ----------------------------------------------------------------- C16
\* C16: wherever the program calls reset_progress (in process_files,
\* restore_backups and create_dummy_files), running is false and no task is
\* queued or in flight.
C16_ResetOnlyWhenStopped ==
    mpc \in {"bulk_reset", "bulk_reset_set"} =>
        /\ ~running
        /\ \A t \in Tasks : InQueue(t) = 0
        /\ \A w \in Threads : ~InFlight(w)

\* ----------------------------------------------------------------- C17
\* C17: the dict get_progress returns holds the three counters as they were
\* together at the moment of the copy; afterwards it changes only by what
\* its holder writes into it, not by a worker increment, an add_task or a
\* reset_progress, and what the holder writes does not reach the counters.
C17_SnapshotIsCopy ==
    [][/\ get_progress_copy => Held' = progress
       /\ holder_write => progress' = progress
       /\ ~(get_progress_copy \/ holder_write) => Held' = Held]_vars

\* a snapshot its holder wrote into, with counters that moved on since
C17_Witness ==
    /\ snap.total = Scribble
    /\ snap.processed = 0
    /\ progress.total = 2
    /\ progress.processed = 1
    /\ progress.errors = 1

\* ----------------------------------------------------------------- C18
\* C18: a stop_workers call puts exactly one sentinel per handle in the
\* worker list: while it is putting, the sentinels put and those still to
\* put add up to the length of the list, and when it joins it has put
\* exactly that many.
C18_SentinelPerHandle ==
    /\ mpc = "stop_put" => nputs + mi = Len(workers)
    /\ mpc = "stop_join" => nputs = Len(workers)

\* two handles tracked (two starts of one worker, or one start of two)
C18_Witness ==
    /\ mpc = "stop_join"
    /\ Len(workers) = 2
    /\ nputs = 2

\* ----------------------------------------------------------------- C19
\* tasks added since the last reset_progress that a worker took off the queue
Dequeued == {t \in epoch + 1..nadded : InQueue(t) = 0}

\* C19: from the return of stop_workers until the next start_workers no task
\* is in flight: every task that a worker took off the queue has been run
\* and has its processed or errors increment recorded.
C19_StopWaitsForInFlight ==
    (mpc = "idle" /\ ~running) =>
        /\ \A w \in Threads : ~InFlight(w)
        /\ \A t \in 1..nadded : InQueue(t) = 0 => completed[t] = 1
        /\ progress.processed + progress.errors >= Cardinality(Dequeued)

\* stop_workers has returned after both tasks were taken and counted
C19_Witness ==
    /\ mpc = "idle"
    /\ ~running
    /\ script = "stopped"
    /\ Cardinality(Dequeued) = 2
    /\ progress.processed + progress.errors = 2

\* ----------------------------------------------------------------- C20
\* a step of the caller that belongs to a stop_workers call
StopStep == (InStop \/ InStop') /\ <<mpc, mi>>' # <<mpc, mi>>

\* C20: no step of stop_workers changes the counters, and at its return
\* running is false, the worker list is empty and every thread that was in
\* the list has terminated.
C20_StopLeavesPoolStopped ==
    [][/\ StopStep => progress' = progress
       /\ (mpc = "stop_join" /\ mpc' = "idle") =>
             /\ ~running'
             /\ workers' = <<>>
             /\ \A i \in 1..Len(workers) : wpc'[workers[i]] = "dead"]_vars

\* returned from a stop of two workers with the counters of the run kept
C20_Witness ==
    /\ mpc = "idle"
    /\ script = "stopped"
    /\ ~running
    /\ workers = <<>>
    /\ spawned = 2
    /\ \A w \in Threads : wpc[w] = "dead"
    /\ progress.total = 2

\* ----------------------------------------------------------------- C21
\* the thread that holds the counter lock is at the one statement under it
LockHeldAtCounterOnly ==
    /\ \A w \in Threads : lock = w => wpc[w] \in {"proc_inc", "err_inc"}
    /\ lock = MainThread => mpc \in {"add_inc", "reset_set"}
    /\ lock = PollerThread => ppc = "copy"

\* C21: the counter lock is held only at a counter read or update, never
\* during a task's func call or a queue get/put; so, with nothing assumed
\* about how long the func calls take, a held lock is always released and
\* every add_task, reset_progress and get_progress call returns.
C21_LockHeldBriefly ==
    /\ []LockHeldAtCounterOnly
    /\ (lock # Free) ~> (lock = Free)
    /\ (mpc \in {"add_lock", "add_inc", "reset_set"}) ~> (mpc = "idle")
    /\ (ppc = "copy") ~> (ppc = "idle")

\* add_task waits for the lock a worker holds while the other worker is
\* inside a func call
C21_Witness ==
    /\ mpc = "add_lock"
    /\ lock \in Threads
    /\ \E w \in Threads : wpc[w] = "call"

\* ----------------------------------------------------------------- C22
\* the steps of the main thread that read or write self.progress
MainAccess ==
    \/ add_task_inc
    \/ reset_progress_set
    \/ bulk_add_task_inc
    \/ bulk_reset_progress_set
    \/ bulk_return

\* C22: every step that reads or writes the progress counters is taken by a
\* thread that holds the counter lock.
C22_CountersOnlyUnderLock ==
    [][/\ MainAccess => lock = MainThread
       /\ \A w \in Threads : worker_inc(w) => lock = w
       /\ get_progress_copy => lock = PollerThread
       /\ progress' # progress => lock # Free]_vars

\* ----------------------------------------------------------------- C23
\* C23: with any number of workers, a task that has left the queue was put
\* after no task that is still in it: tasks are dequeued in the order of
\* their puts (the order of their numbers). Their completions are not
\* ordered: the witness is a state where the later task is counted and the
\* earlier one is still running on the other worker.
C23_DequeueInPutOrder ==
    \A a \in 1..nadded : \A b \in 1..nadded :
        (a < b /\ InQueue(b) = 0) => InQueue(a) = 0

C23_Witness ==
    /\ completed[2] = 1
    /\ completed[1] = 0
    /\ OnWorkers(1) = 1
    /\ progress.processed + progress.errors = 1

\* ----------------------------------------------------------------- C24
\* the tasks whose execution completes in the step
Completing == {t \in Tasks : completed'[t] # completed[t]}

\* the step is the assignment of reset_progress
ResetStep == mpc = "reset_set" /\ mpc' = "idle"

\* C24: a task completes at most once and its completion is one increment
\* of processed or of errors, never of both; no other step changes these
\* two counters and total never goes down, except that reset_progress sets
\* all three to zero. Hence processed + errors is the number of completions
\* since the last reset.
C24_OneIncrementPerTask ==
    [][IF ResetStep
       THEN progress' = ZeroProgress
       ELSE /\ progress'.total >= progress.total
            /\ progress'.processed >= progress.processed
            /\ progress'.errors >= progress.errors
            /\ (progress'.processed - progress.processed)
                 + (progress'.errors - progress.errors)
                   = Cardinality(Completing)
            /\ Cardinality(Completing) <= 1
            /\ \A t \in Completing : completed[t] = 0 /\ completed'[t] = 1]_vars

\* a reset while both tasks were out of the queue, then one counted in each
\* counter
C24_Witness ==
    /\ epoch = 2
    /\ progress = [total |-> 0, processed |-> 1, errors |-> 1]
    /\ \A t \in Tasks : completed[t] = 1

\* ----------------------------------------------------------------- C25
\* C25: a task that runs restore_backup on a path without the '.bak.cu'
\* suffix leaves the filesystem as it is, gets False from the call, and is
\* counted in errors and not in processed.
C25_InvalidBackupCountsAsError ==
    [][\A w \in Threads :
         (wtask[w] # None /\ ~EndsWith(TaskArg(wtask[w]), BACKUP_EXTENSION)) =>
             /\ (wpc[w] = "call" /\ wpc'[w] # "call") =>
                   /\ fs' = fs
                   /\ last'.ret = "False"
                   /\ wret'[w] = "falsy"
             /\ (wret[w] # "none" /\ wret'[w] = "none") =>
                   /\ progress'.errors = progress.errors + 1
                   /\ progress'.processed = progress.processed]_vars

=============================================================================
